---- MODULE Spec2Model ----
(***************************************************************************)
(* Model of sampleVonMisesMex.c: the MEX entry point mexFunction, which    *)
(* validates (mu, kappa, nSamples), and sample(), the ratio-of-uniforms    *)
(* rejection sampler for the von Mises distribution.                       *)
(*                                                                         *)
(* Doubles are modelled as fixed-point numbers: the integer v stands for   *)
(* the real v / Scale.  An operation rounds its exact result to the        *)
(* nearest grid value, as an IEEE operation rounds to the nearest double.  *)
(* A division by zero gives an infinity or a NaN, as it does in IEEE       *)
(* arithmetic.                                                             *)
(***************************************************************************)
EXTENDS Integers, Sequences, FiniteSets, TLC

VARIABLES
    pc,             \* position of the call in mexFunction / sample
    nrhs,           \* number of right-hand-side arguments
    nlhs,           \* number of requested outputs
    prhs,           \* the arguments: records [isDouble, isScalar, val]
    errorId,        \* identifier of the raised error, "" if none
    mu,             \* mexFunction/sample: circular mean
    kappa,          \* mexFunction/sample: concentration
    numSamples,     \* mwSize numSamples
    angles,         \* the output vector plhs[0], a sequence
    allocated,      \* plhs[0] has been created
    i,              \* sample: loop counter (0-based, as in the source)
    samplingParameter,
    angle,          \* IEEE value: [cls, val]
    randomSample1,
    randomSample2,
    rngState,       \* state of the C library generator behind rand()
    seed,           \* argument of the last srand()
    seeded,         \* srand() has been called in this call
    rngCalls,       \* rand() calls the seeded generator served in this call
    lastDraws,      \* the values rand() returned in the last iteration, in call order
    writeLog,       \* indices of angles[] written so far, in order
    sComputed,      \* how often the sampling parameter was computed in this call
    callNo,         \* number of the call within the process
    prev            \* what the previous call of the process was given and returned

vars == << pc, nrhs, nlhs, prhs, errorId, mu, kappa, numSamples, angles,
           allocated, i, samplingParameter, angle, randomSample1,
           randomSample2, rngState, seed, seeded, rngCalls, lastDraws,
           writeLog, sComputed, callNo, prev >>

(***************************************************************************)
(* Bounds of the model.                                                    *)
(***************************************************************************)
RandHalf == 1       \* RAND_MAX = 2 * RandHalf + 1
MaxSamples == 2     \* largest requested number of samples
MaxSeed == 1        \* seeds 0 .. MaxSeed
MaxDraws == 6       \* rngCalls stops counting here

(***************************************************************************)
(* Fixed-point arithmetic.                                                 *)
(***************************************************************************)
Scale == 100

\* RAND_MAX is odd in every C library (2^15 - 1, 2^31 - 1).
RAND_MAX == 2 * RandHalf + 1

Abs(x) == IF x < 0 THEN -x ELSE x

\* a / b rounded to the nearest integer, b > 0 (\div rounds down)
RoundDiv(a, b) == (2 * a + b) \div (2 * b)

\* product of two fixed-point numbers
FMul(a, b) == RoundDiv(a * b, Scale)

\* quotient of two fixed-point numbers, b # 0
FDiv(a, b) ==
    IF b > 0 THEN RoundDiv(a * Scale, b) ELSE RoundDiv(-(a * Scale), -b)

\* M_PI: the grid value nearest to pi; like the double M_PI it lies below pi
M_PI == 314

\* pi and 2 pi to four more digits: what sin, cos and atan2 work with
FineScale == 10000
PiFine == 3141593
TwoPiFine == 6283185

\* IEEE values: finite, infinite, not-a-number
Fin(v) == [cls |-> "fin", val |-> v]
Inf(sign) == [cls |-> "inf", val |-> sign]
NaN == [cls |-> "nan", val |-> 0]

\* a faulty variant of Uniform: rand() / RAND_MAX without the casts, an
\* integer division
UniformIntDiv(r) == (r \div RAND_MAX) * Scale

\* (double) rand() / (double) RAND_MAX
Uniform(r) == RoundDiv(r * Scale, RAND_MAX)

\* floor of the square root of n, which lies in lo .. hi, by bisection
RECURSIVE SqrtBetween(_, _, _)
SqrtBetween(n, lo, hi) ==
    IF lo = hi THEN lo
    ELSE LET mid == (lo + hi + 1) \div 2
         IN  IF mid * mid <= n THEN SqrtBetween(n, mid, hi)
                               ELSE SqrtBetween(n, lo, mid - 1)

ISqrt(n) == SqrtBetween(n, 0, 4 * Scale * Scale)

\* sqrt(x)
Sqrt(x) ==
    LET n == x * Scale
        f == ISqrt(n)
    IN  IF n - f * f > f THEN f + 1 ELSE f

\* the library functions carry one more digit inside than they return
Guard == 10

\* the number of terms the series of exp is summed to
SeriesTerms == 9

\* the Taylor series of exp in Horner's form, with the guard digit:
\* 1 + x/k (1 + x/(k+1) (1 + ...))
RECURSIVE ExpSeries(_, _)
ExpSeries(x, k) ==
    IF k > SeriesTerms THEN Scale * Guard
    ELSE Scale * Guard + RoundDiv(x * ExpSeries(x, k + 1), k * Scale)

\* exp(x)
Exp(x) == RoundDiv(ExpSeries(x, 1), Guard)

\* one factor 1 - x2 / d * inner of the series of cos, with the guard digit
CosTerm(x2, d, inner) == Scale * Guard - RoundDiv(x2 * inner, d * Scale * Guard)

\* the Taylor series of cos in Horner's form, in x2 = x^2:
\* 1 - x2/(1 2) (1 - x2/(3 4) (1 - x2/(5 6) (1 - ...))), eight terms
CosSeries(x2) ==
    CosTerm(x2, 2, CosTerm(x2, 12, CosTerm(x2, 30, CosTerm(x2, 56,
    CosTerm(x2, 90, CosTerm(x2, 132, CosTerm(x2, 182,
    CosTerm(x2, 240, Scale * Guard))))))))

\* cos(x) for a finite x
Cos(x) == RoundDiv(CosSeries(RoundDiv(x * x, Guard)), Guard)

\* ln 2
LN2 == 69

\* the number of doublings that bring u into (1/2, 1]
RECURSIVE Doublings(_)
Doublings(u) == IF 2 * u > Scale THEN 0 ELSE 1 + Doublings(2 * u)

\* u doubled until it lies in (1/2, 1]
RECURSIVE Reduced(_)
Reduced(u) == IF 2 * u > Scale THEN u ELSE Reduced(2 * u)

\* 2 atanh(z) = 2 z (1 + z^2 (1/3 + z^2 / 5)) for |z| <= 1/3
Atanh2(z) ==
    2 * FMul(z, Scale + FMul(FMul(z, z), RoundDiv(Scale, 3) + RoundDiv(FMul(z, z), 5)))

\* log(u) for 0 < u <= 1: log(u) = log(v) - n log(2) with v = u * 2^n, and
\* log(v) = 2 atanh((v - 1) / (v + 1))
Log(u) ==
    Atanh2(RoundDiv((Reduced(u) - Scale) * Scale, Reduced(u) + Scale))
        - Doublings(u) * LN2

\* pow(angle, 2)
Pow2Angle(x) == FMul(x, x)

\* atan2(sin(x), cos(x)): the angle in (-pi, pi] that differs from x by a
\* multiple of 2 pi, rounded to the grid
Wrap(x) ==
    LET y == x * FineScale
        w == IF y > PiFine THEN y - TwoPiFine
             ELSE IF y <= -PiFine THEN y + TwoPiFine
             ELSE y
    IN  RoundDiv(w, FineScale)

(***************************************************************************)
(* The C library generator behind srand() and rand(): a linear             *)
(* congruential generator whose output is the state without its low bit.   *)
(***************************************************************************)
RngMod == 2 * (RAND_MAX + 1)

\* srand(seed)
RngSeed(sd) == sd % RngMod

\* one step of the generator
RngStep(st) == (5 * st + 3) % RngMod

\* the value rand() returns in state st
RngOut(st) == st \div 2

(***************************************************************************)
(* The inputs of a call.                                                   *)
(***************************************************************************)
Arg(v) == [isDouble |-> TRUE, isScalar |-> TRUE, val |-> v]
NotDouble == [isDouble |-> FALSE, isScalar |-> TRUE, val |-> Scale]
NotScalar == [isDouble |-> TRUE, isScalar |-> FALSE, val |-> Scale]

MuVals == {-M_PI, 0, M_PI}
MuBad == {-M_PI - 1, M_PI + 1}
KappaVals == {0, 130, 400}
KappaBad == {-1}
CountVals == {k * Scale : k \in 1..MaxSamples} \cup {150}
CountBad == {0, -Scale, 50}

MuArgs == {Arg(v) : v \in MuVals \cup MuBad} \cup {NotDouble, NotScalar}
KappaArgs == {Arg(v) : v \in KappaVals \cup KappaBad} \cup {NotDouble, NotScalar}
CountArgs == {Arg(v) : v \in CountVals \cup CountBad} \cup {NotDouble, NotScalar}

ArgLists ==
    {<<m>> : m \in MuArgs}
    \cup {<<m, k>> : m \in MuArgs, k \in KappaArgs}
    \cup {<<m, k, n>> : m \in MuArgs, k \in KappaArgs, n \in CountArgs}
    \cup {<<m, k, n, Arg(0)>> : m \in {Arg(0)}, k \in {Arg(Scale)}, n \in CountArgs}

Seeds == 0..MaxSeed

NoCall == [made |-> FALSE]

\* the state of the process before the first call
Init ==
    /\ pc = "idle"
    /\ nrhs = 0
    /\ nlhs = 0
    /\ prhs = << >>
    /\ errorId = ""
    /\ mu = 0
    /\ kappa = 0
    /\ numSamples = 0
    /\ angles = << >>
    /\ allocated = FALSE
    /\ i = 0
    /\ samplingParameter = 0
    /\ angle = Fin(0)
    /\ randomSample1 = 0
    /\ randomSample2 = 0
    /\ rngState = 0
    /\ seed = 0
    /\ seeded = FALSE
    /\ rngCalls = 0
    /\ lastDraws = << >>
    /\ writeLog = << >>
    /\ sComputed = 0
    /\ callNo = 0
    /\ prev = NoCall

\* what a finished call was given and what it returned
Summary ==
    [made |-> TRUE, mu |-> mu, kappa |-> kappa, numSamples |-> numSamples,
     seed |-> seed, angles |-> angles, rngCalls |-> rngCalls,
     rngState |-> rngState]

\* the host calls mexFunction with l outputs and the arguments p; the
\* generator's state is the process's and outlives the call
Call(l, p) ==
    /\ pc \in {"idle", "done"}
    /\ callNo' = callNo + 1
    /\ prev' = IF pc = "done" THEN Summary ELSE prev
    /\ pc' = "nrhs"
    /\ nrhs' = Len(p)
    /\ nlhs' = l
    /\ prhs' = p
    /\ errorId' = ""
    /\ mu' = 0
    /\ kappa' = 0
    /\ numSamples' = 0
    /\ angles' = << >>
    /\ allocated' = FALSE
    /\ i' = 0
    /\ samplingParameter' = 0
    /\ angle' = Fin(0)
    /\ randomSample1' = 0
    /\ randomSample2' = 0
    /\ seed' = 0
    /\ seeded' = FALSE
    /\ rngCalls' = 0
    /\ lastDraws' = << >>
    /\ writeLog' = << >>
    /\ sComputed' = 0
    /\ UNCHANGED rngState

unchangedInputs == << nrhs, nlhs, prhs >>
unchangedProcess == << callNo, prev >>
unchangedSampler == << i, samplingParameter, angle, randomSample1, randomSample2,
                       rngState, seed, seeded, rngCalls, lastDraws, writeLog,
                       sComputed >>

\* mexErrMsgIdAndTxt: the call ends here
Raise(id) ==
    /\ pc' = "error"
    /\ errorId' = id

(***************************************************************************)
(* mexFunction                                                             *)
(***************************************************************************)
CheckNrhs ==
    /\ pc = "nrhs"
    /\ IF nrhs # 2 /\ nrhs # 3
       THEN Raise("VonMisesMixture:sampleVonMises:nrhs")
       ELSE pc' = "nlhs" /\ UNCHANGED errorId
    /\ UNCHANGED << unchangedInputs, unchangedProcess, unchangedSampler,
                    mu, kappa, numSamples, angles, allocated >>

CheckNlhs ==
    /\ pc = "nlhs"
    /\ IF nlhs # 1
       THEN Raise("VonMisesMixture:sampleVonMises:nlhs")
       ELSE pc' = "mu" /\ UNCHANGED errorId
    /\ UNCHANGED << unchangedInputs, unchangedProcess, unchangedSampler,
                    mu, kappa, numSamples, angles, allocated >>

CheckMu ==
    /\ pc = "mu"
    /\ IF \/ ~prhs[1].isDouble
          \/ ~prhs[1].isScalar
          \/ prhs[1].val < -M_PI
          \/ prhs[1].val > M_PI
       THEN Raise("VonMisesMixture:sampleVonMises:notScalar")
       ELSE pc' = "kappa" /\ UNCHANGED errorId
    /\ UNCHANGED << unchangedInputs, unchangedProcess, unchangedSampler,
                    mu, kappa, numSamples, angles, allocated >>

\* a faulty variant of CheckKappa: the test of kappa is left out
CheckKappaSkipped ==
    /\ pc = "kappa"
    /\ pc' = "count"
    /\ UNCHANGED << unchangedInputs, unchangedProcess, unchangedSampler,
                    errorId, mu, kappa, numSamples, angles, allocated >>

CheckKappa ==
    /\ pc = "kappa"
    /\ IF \/ ~prhs[2].isDouble
          \/ ~prhs[2].isScalar
          \/ prhs[2].val < 0
       THEN Raise("VonMisesMixture:sampleVonMises:notRealPositiveScalar")
       ELSE pc' = "count" /\ UNCHANGED errorId
    /\ UNCHANGED << unchangedInputs, unchangedProcess, unchangedSampler,
                    mu, kappa, numSamples, angles, allocated >>

\* (int) x for x > 0: the fraction is dropped
CastInt(x) == x \div Scale

CheckNumSamples ==
    /\ pc = "count"
    /\ IF nrhs # 3
       THEN /\ numSamples' = 1
            /\ pc' = "params"
            /\ UNCHANGED errorId
       ELSE IF \/ ~prhs[3].isDouble
               \/ ~prhs[3].isScalar
               \/ prhs[3].val <= 0
            THEN /\ Raise("VonMisesMixture:sampleVonMises:notIntPositiveScalar")
                 /\ UNCHANGED numSamples
            ELSE /\ numSamples' = CastInt(prhs[3].val)
                 /\ pc' = "params"
                 /\ UNCHANGED errorId
    /\ UNCHANGED << unchangedInputs, unchangedProcess, unchangedSampler,
                    mu, kappa, angles, allocated >>

GetParameters ==
    /\ pc = "params"
    /\ mu' = prhs[1].val
    /\ kappa' = prhs[2].val
    /\ pc' = "alloc"
    /\ UNCHANGED << unchangedInputs, unchangedProcess, unchangedSampler,
                    errorId, numSamples, angles, allocated >>

\* mxCreateDoubleMatrix(numSamples, 1, mxREAL): numSamples zeros
Allocate ==
    /\ pc = "alloc"
    /\ angles' = [k \in 1..numSamples |-> Fin(0)]
    /\ allocated' = TRUE
    /\ pc' = "srand"
    /\ UNCHANGED << unchangedInputs, unchangedProcess, unchangedSampler,
                    errorId, mu, kappa, numSamples >>

(***************************************************************************)
(* sample                                                                  *)
(***************************************************************************)
\* a faulty variant of Srand: the call does not reseed the generator
SrandKeepsState(sd) ==
    /\ pc = "srand"
    /\ seed' = sd
    /\ seeded' = TRUE
    /\ pc' = "param"
    /\ UNCHANGED << unchangedInputs, unchangedProcess, errorId, mu, kappa,
                    numSamples, angles, allocated, i, samplingParameter, angle,
                    randomSample1, randomSample2, rngState, rngCalls, lastDraws,
                    writeLog, sComputed >>

\* srand( time(NULL) + clock() + random() ): the seed is whatever the clocks give
Srand(sd) ==
    /\ pc = "srand"
    /\ seed' = sd
    /\ rngState' = RngSeed(sd)
    /\ seeded' = TRUE
    /\ pc' = "param"
    /\ UNCHANGED << unchangedInputs, unchangedProcess, errorId, mu, kappa,
                    numSamples, angles, allocated, i, samplingParameter, angle,
                    randomSample1, randomSample2, rngCalls, lastDraws,
                    writeLog, sComputed >>

\* a faulty variant of SamplingParameter: kappa = 1.3 takes the square root
SamplingParameterGe(k) ==
    IF k >= 130
    THEN FDiv(Scale, Sqrt(k))
    ELSE FMul(M_PI, Exp(-k))

\* the sampling parameter of [1]
SamplingParameter(k) ==
    IF k > 130
    THEN FDiv(Scale, Sqrt(k))
    ELSE FMul(M_PI, Exp(-k))

ComputeSamplingParameter ==
    /\ pc = "param"
    /\ samplingParameter' = SamplingParameter(kappa)
    /\ sComputed' = sComputed + 1
    /\ i' = 0
    /\ pc' = "for"
    /\ UNCHANGED << unchangedInputs, unchangedProcess, errorId, mu, kappa,
                    numSamples, angles, allocated, angle, randomSample1,
                    randomSample2, rngState, seed, seeded, rngCalls,
                    lastDraws, writeLog >>

\* for ( ...; i < numSamples; ... )
ForTest ==
    /\ pc = "for"
    /\ pc' = IF i < numSamples THEN "while" ELSE "done"
    /\ UNCHANGED << unchangedInputs, unchangedProcess, unchangedSampler,
                    errorId, mu, kappa, numSamples, angles, allocated >>

\* samplingParameter * ( 2 * randomSample2 - 1 ) / randomSample1
Candidate(s, u1, u2) ==
    LET num == s * (2 * u2 - Scale)
    IN  IF u1 # 0 THEN Fin(RoundDiv(num, u1))
        ELSE IF num > 0 THEN Inf(1)
        ELSE IF num < 0 THEN Inf(-1)
        ELSE NaN

\* a faulty variant of OutOfRange: fabs(angle) >= M_PI
OutOfRangeInclusive(a) ==
    CASE a.cls = "inf" -> TRUE
      [] a.cls = "nan" -> FALSE
      [] OTHER -> Abs(a.val) >= M_PI

\* fabs(angle) > M_PI
OutOfRange(a) ==
    CASE a.cls = "inf" -> TRUE
      [] a.cls = "nan" -> FALSE
      [] OTHER -> Abs(a.val) > M_PI

\* kappa * pow(angle, 2) < 4 - 4 * randomSample1
FirstStop(k, a, u1) ==
    /\ a.cls = "fin"
    /\ FMul(k, Pow2Angle(a.val)) < 4 * Scale - 4 * u1

\* a faulty variant of SecondReject: <= in place of <
SecondRejectOrEqual(k, a, u1) ==
    /\ a.cls = "fin"
    /\ FMul(k, Cos(a.val)) <= 2 * Log(u1) + k

\* kappa * cos(angle) < 2 * log(randomSample1) + kappa
SecondReject(k, a, u1) ==
    /\ a.cls = "fin"
    /\ FMul(k, Cos(a.val)) < 2 * Log(u1) + k

\* one pass through the body of while ( true ): "continue" or "break"
Decide(k, a, u1) ==
    IF OutOfRange(a) THEN "continue"
    ELSE IF FirstStop(k, a, u1) THEN "break"
    ELSE IF SecondReject(k, a, u1) THEN "continue"
    ELSE "break"

CountDraws(n, k) == IF n + k > MaxDraws THEN MaxDraws ELSE n + k

\* one iteration of while ( true ), rand() returning r1 and then r2
Iterate(r1, r2) ==
    /\ pc = "while"
    /\ lastDraws' = << r1, r2 >>
    /\ randomSample1' = Uniform(r1)
    /\ randomSample2' = Uniform(r2)
    /\ angle' = Candidate(samplingParameter, randomSample1', randomSample2')
    /\ pc' = IF Decide(kappa, angle', randomSample1') = "continue"
             THEN "while" ELSE "assign"
    /\ UNCHANGED << unchangedInputs, unchangedProcess, errorId, mu, kappa,
                    numSamples, angles, allocated, i, samplingParameter,
                    seed, seeded, writeLog, sComputed >>

\* rand() of an unknown generator: any value of 0 .. RAND_MAX
IterateAny ==
    /\ \E r1, r2 \in 0..RAND_MAX : Iterate(r1, r2)
    /\ UNCHANGED << rngState, rngCalls >>

\* rand() of the generator srand() seeded
IterateSeeded ==
    LET s1 == RngStep(rngState)
        s2 == RngStep(s1)
    IN  /\ Iterate(RngOut(s1), RngOut(s2))
        /\ rngState' = s2
        /\ rngCalls' = CountDraws(rngCalls, 2)

\* atan2( sin(angle + mu), cos(angle + mu) )
Recentre(a, m) ==
    IF a.cls = "fin" THEN Fin(Wrap(a.val + m)) ELSE NaN

\* a faulty variant of Assign: the loop counter is not advanced
AssignNoAdvance ==
    /\ pc = "assign"
    /\ angles' = [angles EXCEPT ![i + 1] = Recentre(angle, mu)]
    /\ writeLog' = Append(writeLog, i)
    /\ pc' = "for"
    /\ UNCHANGED << unchangedInputs, unchangedProcess, errorId, mu, kappa,
                    numSamples, allocated, i, samplingParameter, angle,
                    randomSample1, randomSample2, rngState, seed, seeded,
                    rngCalls, lastDraws, sComputed >>

\* angles[i] = ...; i++
Assign ==
    /\ pc = "assign"
    /\ angles' = [angles EXCEPT ![i + 1] = Recentre(angle, mu)]
    /\ writeLog' = Append(writeLog, i)
    /\ i' = i + 1
    /\ pc' = "for"
    /\ UNCHANGED << unchangedInputs, unchangedProcess, errorId, mu, kappa,
                    numSamples, allocated, samplingParameter, angle,
                    randomSample1, randomSample2, rngState, seed, seeded,
                    rngCalls, lastDraws, sComputed >>

\* a process that makes one call, with any arguments
FirstCall ==
    /\ callNo = 0
    /\ \E l \in 0..2, p \in ArgLists : Call(l, p)

\* The generator is left abstract here: rand() may return any value whatever
\* the seed was, so one value of the seed stands for all.
Next ==
    \/ FirstCall
    \/ CheckNrhs
    \/ CheckNlhs
    \/ CheckMu
    \/ CheckKappa
    \/ CheckNumSamples
    \/ GetParameters
    \/ Allocate
    \/ Srand(0)
    \/ ComputeSamplingParameter
    \/ ForTest
    \/ IterateAny
    \/ Assign

Spec == Init /\ [][Next]_vars

(***************************************************************************)
(* The sampler under fair random draws: no pair of values of rand() is     *)
(* withheld forever, and the deterministic steps of the call are taken.    *)
(***************************************************************************)
\* the steps of a call other than the draws; at most one is enabled at a time
Deterministic ==
    \/ FirstCall
    \/ CheckNrhs
    \/ CheckNlhs
    \/ CheckMu
    \/ CheckKappa
    \/ CheckNumSamples
    \/ GetParameters
    \/ Allocate
    \/ Srand(0)
    \/ ComputeSamplingParameter
    \/ ForTest
    \/ Assign

Fairness ==
    /\ WF_vars(Deterministic)
    /\ \A r1, r2 \in 0..RAND_MAX :
          WF_vars(Iterate(r1, r2) /\ UNCHANGED << rngState, rngCalls >>)

FairSpec == Init /\ [][Next]_vars /\ Fairness

(***************************************************************************)
(* Two calls in one process, rand() being the generator that srand()       *)
(* seeded.  The generator's state outlives a call.                         *)
(***************************************************************************)
SeededArgLists ==
    {<<Arg(m), Arg(k), Arg(n)>> :
        m \in {-M_PI, 0}, k \in KappaVals, n \in {Scale, MaxSamples * Scale}}

\* a process that makes two calls, each with valid arguments
ValidCall ==
    /\ callNo < 2
    /\ \E p \in SeededArgLists : Call(1, p)

SeededNext ==
    \/ ValidCall
    \/ CheckNrhs
    \/ CheckNlhs
    \/ CheckMu
    \/ CheckKappa
    \/ CheckNumSamples
    \/ GetParameters
    \/ Allocate
    \/ \E sd \in Seeds : Srand(sd)
    \/ ComputeSamplingParameter
    \/ ForTest
    \/ IterateSeeded
    \/ Assign

SeededSpec == Init /\ [][SeededNext]_vars

(***************************************************************************)
(* Properties                                                              *)
(***************************************************************************)
ValidationPcs == {"nrhs", "nlhs", "mu", "kappa", "count"}
SamplerPcs == {"for", "while", "assign", "done"}

\* the slots of angles[] written so far, as indices of the sequence
Written == {writeLog[j] + 1 : j \in 1..Len(writeLog)}

\* the candidate held in angle passes the tests of the loop
Accepted == Decide(kappa, angle, randomSample1) = "break"

C1_Slots ==
    /\ \A j \in 1..Len(writeLog) : writeLog[j] = j - 1
    /\ Len(writeLog) <= numSamples
    /\ pc \in {"for", "while"} => Len(writeLog) = i
    /\ pc = "done" => Len(angles) = numSamples /\ Len(writeLog) = numSamples

C1_Step ==
    /\ \A j \in Written : angles'[j] = angles[j]
    /\ writeLog' # writeLog =>
          /\ pc = "assign"
          /\ Accepted
          /\ writeLog' = Append(writeLog, i)
    /\ (allocated /\ angles' # angles) => writeLog' # writeLog

\* C1: a call that passes validation returns exactly numSamples elements;
\* sample() writes the slots angles[0 .. numSamples-1] once each, in
\* increasing order, each only after a candidate was accepted, and never
\* changes a slot it has written.
C1_WriteOnceInOrder == [](C1_Slots) /\ [][C1_Step]_vars

C1_Witness == pc = "done" /\ numSamples = 2 /\ writeLog = << 0, 1 >>

\* C2: every returned sample lies in (-pi, pi]: -pi is never emitted.
C2_RangeHalfOpen ==
    \A j \in Written :
        /\ angles[j].cls = "fin"
        /\ angles[j].val > -M_PI
        /\ angles[j].val <= M_PI

\* the arguments the claim calls invalid
MuInvalid == prhs[1].val < -M_PI \/ prhs[1].val > M_PI
KappaInvalid == prhs[2].val < 0
CountInvalid == nrhs = 3 /\ prhs[3].val < Scale

\* C3: a call whose mu is outside [-pi, pi], whose kappa is negative or whose
\* requested number of samples is below 1 ends in an error and returns no
\* output; mu = -pi, mu = pi and kappa = 0 are accepted.
C3_InvalidRejected ==
    /\ (pc \in {"params", "alloc", "srand", "param"} \cup SamplerPcs) =>
          ~MuInvalid /\ ~KappaInvalid /\ ~CountInvalid
    /\ (pc = "error" /\ nlhs = 1 /\ nrhs = 3
          /\ \A k \in 1..3 : prhs[k].isDouble /\ prhs[k].isScalar) =>
          MuInvalid \/ KappaInvalid \/ CountInvalid

\* every check of mexFunction passes
ChecksPass ==
    /\ nrhs \in {2, 3}
    /\ nlhs = 1
    /\ prhs[1].isDouble /\ prhs[1].isScalar
    /\ prhs[1].val >= -M_PI /\ prhs[1].val <= M_PI
    /\ prhs[2].isDouble /\ prhs[2].isScalar /\ prhs[2].val >= 0
    /\ nrhs = 3 => prhs[3].isDouble /\ prhs[3].isScalar /\ prhs[3].val > 0

\* C4: validation completes before generation: the output is allocated, the
\* generator seeded and a uniform drawn only after every check has passed; a
\* call returns all numSamples values or fails with no seeding, no draw and
\* no output.
C4_ValidationFirst ==
    /\ (pc \in ValidationPcs \cup {"error", "params", "alloc"}) =>
          /\ ~allocated
          /\ ~seeded
          /\ lastDraws = << >>
          /\ writeLog = << >>
          /\ angles = << >>
    /\ (allocated \/ seeded \/ lastDraws # << >> \/ writeLog # << >>) => ChecksPass
    /\ seeded => allocated
    /\ lastDraws # << >> => seeded
    /\ pc = "error" => errorId # "" /\ ~ChecksPass
    /\ pc = "done" =>
          /\ errorId = ""
          /\ Len(angles) = numSamples
          /\ Written = 1..numSamples

C4_Witness == pc = "error" /\ nrhs = 3 /\ prhs[1].val = 0 /\ prhs[2].val = 0
              /\ prhs[3].isDouble /\ prhs[3].val = 0

C5_LoopStep == pc = "while" => pc' \in {"while", "assign"}

\* C5: for every valid input, kappa = 0 included, the rejection loop has no
\* error exit and, under fair draws, each sample's loop ends and the call
\* finishes with all numSamples slots written.
C5_Terminates ==
    /\ [][C5_LoopStep]_vars
    /\ (pc = "while") ~> (pc = "assign")
    /\ (pc = "srand") ~> (pc = "done" /\ Len(writeLog) = numSamples)

C5_Witness == pc = "done" /\ kappa = 0 /\ numSamples = 2 /\ Len(writeLog) = 2

\* the call has the parameters and the seed of the process's previous call
SameAsPrev ==
    /\ prev.made
    /\ prev.mu = mu
    /\ prev.kappa = kappa
    /\ prev.numSamples = numSamples
    /\ prev.seed = seed

\* C6: two calls with the same (mu, kappa, numSamples) whose generator starts
\* from the same seed return the same sequence and consume the same number
\* of draws.
C6_Deterministic ==
    (pc = "done" /\ SameAsPrev) =>
        /\ angles = prev.angles
        /\ rngCalls = prev.rngCalls
        /\ rngState = prev.rngState

C6_Witness == pc = "done" /\ SameAsPrev /\ numSamples = 2 /\ rngCalls > 2

\* the outcome the claim gives for a candidate a drawn with first uniform u1
ClaimedOutcome(k, a, u1) ==
    CASE a.cls = "inf" -> "reject"
      [] a.cls = "fin" /\ Abs(a.val) > M_PI -> "reject"
      [] a.cls = "fin" /\ Abs(a.val) <= M_PI
            /\ FMul(k, FMul(a.val, a.val)) < 4 * Scale - 4 * u1 -> "accept"
      [] a.cls = "fin" /\ Abs(a.val) <= M_PI
            /\ ~(FMul(k, FMul(a.val, a.val)) < 4 * Scale - 4 * u1)
            /\ FMul(k, Cos(a.val)) < 2 * Log(u1) + k -> "reject"
      [] OTHER -> "accept"

C7_Step ==
    pc = "while" =>
        /\ Len(lastDraws') = 2
        /\ randomSample1' = Uniform(lastDraws'[1])
        /\ randomSample2' = Uniform(lastDraws'[2])
        /\ randomSample1' # 0 =>
              angle' = Fin(RoundDiv(samplingParameter * (2 * randomSample2' - Scale),
                                    randomSample1'))
        /\ pc' = IF ClaimedOutcome(kappa, angle', randomSample1') = "accept"
                 THEN "assign" ELSE "while"
        /\ pc' = "assign" => angle'.cls = "fin" /\ Abs(angle'.val) <= M_PI

\* C7: an iteration draws two uniforms, u1 and then u2, forms
\* angle = s (2 u2 - 1) / u1 from them alone, and rejects if |angle| > pi,
\* else accepts if kappa angle^2 < 4 - 4 u1, else rejects if
\* kappa cos(angle) < 2 ln(u1) + kappa, else accepts; an accepted angle has
\* |angle| <= pi.
C7_IterationOutcome == [][C7_Step]_vars

\* a candidate of the first sample with |angle| <= pi that the exact test
\* rejected
C7_Witness ==
    /\ pc = "while"
    /\ i = 0
    /\ kappa = 400
    /\ lastDraws # << >>
    /\ angle.cls = "fin"
    /\ Abs(angle.val) <= M_PI

\* C8: the first uniform is strictly positive whenever the candidate angle
\* is computed from it.
C8_FirstUniformPositive == lastDraws # << >> => randomSample1 > 0

C9_State ==
    /\ (pc \in SamplerPcs) =>
          /\ sComputed = 1
          /\ kappa > 130 => samplingParameter = FDiv(Scale, Sqrt(kappa))
          /\ kappa <= 130 => samplingParameter = FMul(M_PI, Exp(-kappa))
          /\ samplingParameter > 0
          /\ mu = prhs[1].val
          /\ kappa = prhs[2].val
    /\ lastDraws # << >> => sComputed = 1
    /\ sComputed <= 1

C9_Step ==
    (pc \in SamplerPcs) =>
        /\ samplingParameter' = samplingParameter
        /\ mu' = mu
        /\ kappa' = kappa

\* C9: the sampling parameter is computed once per call, before the first
\* draw: 1 / sqrt(kappa) if kappa > 1.3, pi exp(-kappa) otherwise (so also
\* at kappa = 1.3); it is positive, and it, mu and kappa stay unchanged
\* through the loop.
C9_SamplingParameter == [](C9_State) /\ [][C9_Step]_vars

C9_Witness ==
    /\ pc = "done"
    /\ kappa = 130
    /\ numSamples = 2
    /\ samplingParameter = FMul(M_PI, Exp(-130))

C10_Step ==
    (pc = "while" /\ kappa = 0) =>
        /\ samplingParameter = M_PI
        /\ (randomSample1' > 0 /\ Abs(angle'.val) <= M_PI) => pc' = "assign"
        /\ pc' = "while" => (angle'.cls = "inf" \/ Abs(angle'.val) > M_PI)

\* C10: at kappa = 0 the sampling parameter is pi and a candidate with
\* u1 > 0 and |angle| <= pi is accepted in the iteration that drew it, also
\* at u1 = 1; only candidates with |angle| > pi are rejected.
C10_UniformCase == [][C10_Step]_vars

C10_Witness ==
    /\ pc = "assign"
    /\ kappa = 0
    /\ randomSample1 = Scale
    /\ angle = Fin(M_PI)

====
